---- MODULE Spec2Model ----
(***************************************************************************)
(* Model of padasip's adaptive filters: the AdaptiveFilter base class and  *)
(* its affine-projection specialisation (filters/base_filter.py) and the  *)
(* GNGD filter (filters/gngd.py).                                          *)
(*                                                                         *)
(* Numbers.  numpy's float64 values are modelled as exact rationals        *)
(* <<num, den>> in lowest terms with den > 0; a division by zero, which    *)
(* numpy answers with inf/nan and a warning rather than an exception, is   *)
(* the absorbing value <<0, 0>>.  Rounding is not modelled.                *)
(*                                                                         *)
(* Exceptions.  Every raise of the source is an outcome name; the ones the *)
(* source raises as ValueError carry the name of the error they stand for *)
(* (InvalidWeightSpec, DimensionMismatch, ConversionError); numpy's own    *)
(* shape errors are "ShapeError", Python's are "TypeError", "NameError"    *)
(* and "IndexError".                                                       *)
(***************************************************************************)
EXTENDS Integers, Sequences, FiniteSets, TLC

VARIABLES
    pc,      \* "new" before the constructor ran, then "ready" or "failed"
    ctor,    \* the arguments the caller gave the constructor, and its outcome
    self,    \* the filter object: a record of its fields
    call,    \* the last call: its arguments, the object before it, what it returned
    chain,   \* the current series of consecutive successful run calls
    fed,     \* affine projection: the samples handed to adapt, most recent first
    steps    \* samples processed so far by a learning rule

vars == <<pc, ctor, self, call, chain, fed, steps>>

(***************************************************************************)
(* Bounds and input domains                                                *)
(***************************************************************************)
\* Samples one filter processes in its life: it caps the length of a batch and
\* the growth of the weights' numerators and denominators.
MaxSteps == 2

----------------------------------------------------------------------------
(***************************************************************************)
(* Rational arithmetic                                                     *)
(***************************************************************************)
Abs(i) == IF i < 0 THEN -i ELSE i

RECURSIVE GCD(_, _)
GCD(a, b) == IF b = 0 THEN a ELSE GCD(b, a % b)

NonFinite == <<0, 0>>

Rat(p, q) ==
    IF q = 0 THEN NonFinite
    ELSE LET g == GCD(Abs(p), Abs(q))
             s == IF q < 0 THEN -1 ELSE 1
         IN  <<(s * p) \div g, (s * q) \div g>>

R(i) == <<i, 1>>
Zero == R(0)
One == R(1)

IsFinite(a) == a[2] # 0
\* The operations cancel common factors before they multiply, so that no
\* intermediate product is larger than the result needs.
RAdd(a, b) ==
    IF ~IsFinite(a) \/ ~IsFinite(b) THEN NonFinite
    ELSE LET g == GCD(a[2], b[2])
         IN  Rat(a[1] * (b[2] \div g) + b[1] * (a[2] \div g),
                 (a[2] \div g) * b[2])
RNeg(a) == <<-a[1], a[2]>>
RSub(a, b) == RAdd(a, RNeg(b))
RMul(a, b) ==
    IF ~IsFinite(a) \/ ~IsFinite(b) THEN NonFinite
    ELSE LET g1 == GCD(Abs(a[1]), b[2])
             g2 == GCD(Abs(b[1]), a[2])
         IN  <<(a[1] \div g1) * (b[1] \div g2), (a[2] \div g2) * (b[2] \div g1)>>
RInv(a) ==
    IF ~IsFinite(a) \/ a[1] = 0 THEN NonFinite
    ELSE IF a[1] < 0 THEN <<-a[2], -a[1]>> ELSE <<a[2], a[1]>>
RDiv(a, b) == RMul(a, RInv(b))
RSq(a) == RMul(a, a)
\* int(): truncation toward zero.
Trunc(a) == IF a[1] >= 0 THEN a[1] \div a[2] ELSE -((-a[1]) \div a[2])

(***************************************************************************)
(* Vectors and matrices of rationals (numpy arrays)                        *)
(***************************************************************************)
\* A function on 1..n as the tuple of its values, each computed once.
Tuple(f) == f \o <<>>

Zeros(k) == Tuple([i \in 1..k |-> Zero])
VAdd(a, b) == Tuple([i \in 1..Len(a) |-> RAdd(a[i], b[i])])
VSub(a, b) == Tuple([i \in 1..Len(a) |-> RSub(a[i], b[i])])
VScale(c, v) == Tuple([i \in 1..Len(v) |-> RMul(c, v[i])])

RECURSIVE DotFrom(_, _, _)
DotFrom(a, b, i) ==
    IF i > Len(a) THEN Zero ELSE RAdd(RMul(a[i], b[i]), DotFrom(a, b, i + 1))
\* np.dot of two 1-d arrays of the same length
Dot(a, b) == DotFrom(a, b, 1)

\* np.array on a list of Python ints
NpVector(v) == Tuple([i \in 1..Len(v) |-> R(v[i])])
\* np.array on a list of rows; it raises on rows of differing widths
Ragged(x) == \E i, j \in 1..Len(x) : Len(x[i]) # Len(x[j])
NpMatrix(x) == Tuple([k \in 1..Len(x) |-> NpVector(x[k])])

(***************************************************************************)
(* Python values handed to the constructor                                 *)
(***************************************************************************)
\* A Python number: its value, and whether it is an int (np.zeros and
\* np.random.normal refuse a float as a size).
PyInt(i) == [val |-> R(i), int |-> TRUE]
PyFloat(r) == [val |-> r, int |-> FALSE]
\* A weight spec: a string, or a sequence of numbers.
WStr(s) == [kind |-> "str", str |-> s, arr |-> <<>>]
WArr(a) == [kind |-> "arr", str |-> "", arr |-> a]

\* What np.random.normal(0, 0.5, n) may draw for one weight.
RandVals == {R(-1), R(1)}
NArgs == {PyInt(1), PyInt(2)}
MuArgs == {PyInt(2), PyFloat(<<1, 2>>)}
EpsArgs == {One}
RoArgs == {One}
WSpecs == {WStr("zeros"), WStr("random"), WStr("ones"),
           WArr(<<0>>), WArr(<<0, 0>>), WArr(<<1, 0>>)}
\* The constructor call of the documented example: n=2, mu=0.1, eps=1,
\* ro=0.1, w=[0, 0].
Example == <<PyInt(2), PyFloat(<<1, 10>>), One, <<1, 10>>, WArr(<<0, 0>>)>>
\* Constructor calls <<n, mu, eps, ro, w>>.
CtorArgs == (NArgs \X MuArgs \X EpsArgs \X RoArgs \X WSpecs) \cup {Example}

(***************************************************************************)
(* AdaptiveFilter: construction                                            *)
(***************************************************************************)
\* init_weights(w, n): the set of results (one, unless the weights are random).
init_weights(w, n) ==
    IF w.kind = "str"
    THEN IF w.str = "random"
         THEN IF n.int
              THEN {[ok |-> TRUE, err |-> "", w |-> v] :
                        v \in [1..n.val[1] -> RandVals]}
              ELSE {[ok |-> FALSE, err |-> "TypeError", w |-> <<>>]}
         ELSE IF w.str = "zeros"
         THEN IF n.int
              THEN {[ok |-> TRUE, err |-> "", w |-> Zeros(n.val[1])]}
              ELSE {[ok |-> FALSE, err |-> "TypeError", w |-> <<>>]}
         ELSE {[ok |-> FALSE, err |-> "InvalidWeightSpec", w |-> <<>>]}
    ELSE IF R(Len(w.arr)) = n.val
         THEN {[ok |-> TRUE, err |-> "", w |-> NpVector(w.arr)]}
         ELSE {[ok |-> FALSE, err |-> "InvalidWeightSpec", w |-> <<>>]}

\* AdaptiveFilter.__init__(self, mu, n, w): the parameters in the order of the
\* signature. The history starts as False, written <<>>.
AdaptiveFilter_init(mu, n, w) ==
    {[ok |-> r.ok, err |-> r.err, w |-> r.w, n |-> n.val, mu |-> mu.val] :
        r \in init_weights(w, n)}

\* FilterGNGD.__init__(self, n, mu, eps, ro, w=...): it hands n and mu on to
\* the base class by position, super().__init__(n, mu, **kwargs).
FilterGNGD_init(n, mu, eps, ro, w) ==
    {[ok |-> b.ok, err |-> b.err,
      self |-> [w |-> b.w, n |-> b.n, mu |-> b.mu, w_history |-> <<>>,
                eps |-> eps, ro |-> ro, last_e |-> Zero,
                last_x |-> IF b.ok THEN Zeros(n.val[1]) ELSE <<>>]] :
        b \in AdaptiveFilter_init(n, mu, w)}

(***************************************************************************)
(* AdaptiveFilter: predict, adapt, run, pretrained_run; the GNGD rule      *)
(***************************************************************************)
\* What a call hands back: how it ended, the object it leaves, the value it
\* returned (val for predict; y, e and the weight history for run), and, for
\* the record, the deltas the learning rule returned and how many samples it
\* was given.
Res(outcome, s, val, y, e, hist, deltas) ==
    [outcome |-> outcome, self |-> s, val |-> val, y |-> y, e |-> e,
     hist |-> hist, deltas |-> deltas]
Raised(err, s, deltas) == Res(err, s, Zero, <<>>, <<>>, <<>>, deltas)

\* predict(x): np.dot(self.w, x), which raises on differing lengths.
predict(s, x) ==
    IF Len(x) = Len(s.w)
    THEN [ok |-> TRUE, val |-> Dot(s.w, x)]
    ELSE [ok |-> FALSE, val |-> Zero]

\* FilterGNGD.learning_rule(e, x). np.dot(x, self.last_x) raises on differing
\* lengths, before anything is assigned.
learning_rule(s, e, x) ==
    IF Len(x) # Len(s.last_x)
    THEN [ok |-> FALSE, self |-> s, delta |-> <<>>]
    ELSE LET eps1 == RSub(s.eps,
                        RDiv(RMul(RMul(RMul(RMul(s.ro, s.mu), e), s.last_e),
                                  Dot(x, s.last_x)),
                             RSq(RAdd(Dot(s.last_x, s.last_x), s.eps))))
             nu == RDiv(s.mu, RAdd(eps1, Dot(x, x)))
         IN  [ok |-> TRUE,
              self |-> [s EXCEPT !.eps = eps1, !.last_e = e, !.last_x = x],
              delta |-> VScale(RMul(nu, e), x)]

\* A slip in the update: the delta assigned, not added.
apply_delta_assign(w, delta) == delta

\* self.w += delta
apply_delta(w, delta) == VAdd(w, delta)

\* The names base_filter.py binds at module level.
ModuleGlobals == {"np", "get_mean_error", "AdaptiveFilter", "AdaptiveFilterAP"}

\* AdaptiveFilter.adapt(d, x). Its last line calls the bare name
\* learning_rule, which Python looks up among the module's globals.
adapt(s, d, x) ==
    LET p == predict(s, x) IN
    IF ~p.ok THEN Raised("ShapeError", s, <<>>)
    ELSE LET e == RSub(d, p.val) IN
         IF "learning_rule" \notin ModuleGlobals
         THEN Raised("NameError", s, <<>>)
         ELSE LET lr == learning_rule(s, e, x) IN
              IF ~lr.ok THEN Raised("ShapeError", s, <<>>)
              ELSE Res("ok", [lr.self EXCEPT !.w = apply_delta(@, lr.delta)],
                       Zero, <<>>, <<>>, <<>>, <<lr.delta>>)

\* self.w_history[k,:] = self.w : numpy broadcasts a single weight over the
\* row and raises on any other difference of lengths.
HistoryRow(w, m) == IF Len(w) = m THEN w ELSE Tuple([i \in 1..m |-> w[1]])

\* The adaptation loop of run, from sample k on (base_filter.py 191-196).
RECURSIVE run_loop(_, _, _, _, _, _, _)
run_loop(s, d, x, k, y, e, deltas) ==
    IF k > Len(x) THEN Res("ok", s, Zero, y, e, s.w_history, deltas)
    ELSE LET m == Len(x[k]) IN
         IF Len(s.w) # m /\ Len(s.w) # 1 THEN Raised("ShapeError", s, deltas)
         ELSE LET s1 == [s EXCEPT !.w_history[k] = HistoryRow(s.w, m)]
                  p == predict(s1, x[k])
              IN  IF ~p.ok THEN Raised("ShapeError", s1, deltas)
                  ELSE LET ek == RSub(d[k], p.val)
                           lr == learning_rule(s1, ek, x[k])
                       IN  IF ~lr.ok THEN Raised("ShapeError", s1, deltas)
                           ELSE run_loop([lr.self EXCEPT !.w = apply_delta(@, lr.delta)],
                                         d, x, k + 1,
                                         [y EXCEPT ![k] = p.val],
                                         [e EXCEPT ![k] = ek],
                                         Append(deltas, lr.delta))

\* A slip at the start of a batch: the rule's memory of the previous sample
\* is cleared along with the history.
new_history_reset(s, N) ==
    [s EXCEPT !.w_history = Tuple([k \in 1..N |-> Zeros(s.n[1])]),
              !.last_e = Zero, !.last_x = Zeros(Len(s.last_x))]

\* self.w_history = np.zeros((N, self.n)); nothing else of the object changes.
new_history(s, N) ==
    [s EXCEPT !.w_history = Tuple([k \in 1..N |-> Zeros(s.n[1])])]

\* AdaptiveFilter.run(d, x), d a list of numbers and x a list of rows.
run(s, d, x) ==
    LET N == Len(x) IN
    IF Len(d) # N THEN Raised("DimensionMismatch", s, <<>>)
    ELSE IF N = 0 THEN Raised("IndexError", s, <<>>)
    ELSE LET s1 == [s EXCEPT !.n = R(Len(x[1]))] IN
         IF Ragged(x) THEN Raised("ConversionError", s1, <<>>)
         ELSE run_loop(new_history(s1, N), NpVector(d), NpMatrix(x), 1,
                       Zeros(N), Zeros(N), <<>>)

\* Python's seq[:k] and seq[k:] for k >= 0.
Take(q, k) == SubSeq(q, 1, IF k < Len(q) THEN k ELSE Len(q))
Drop(q, k) == SubSeq(q, k + 1, Len(q))

\* The training loop of pretrained_run: run on the first part, epochs times.
RECURSIVE train(_, _, _, _, _)
train(s, d, x, epochs, deltas) ==
    IF epochs <= 0 THEN Res("ok", s, Zero, <<>>, <<>>, <<>>, deltas)
    ELSE LET r == run(s, d, x) IN
         IF r.outcome # "ok" THEN [r EXCEPT !.deltas = deltas \o r.deltas]
         ELSE train(r.self, d, x, epochs - 1, deltas \o r.deltas)

Ntrain(d, ntrain) == Trunc(RMul(R(Len(d)), ntrain))

\* AdaptiveFilter.pretrained_run(d, x, ntrain, epochs)
pretrained_run(s, d, x, ntrain, epochs) ==
    LET T == Ntrain(d, ntrain)
        t == train(s, Take(d, T), Take(x, T), epochs, <<>>)
    IN  IF t.outcome # "ok" THEN t
        ELSE LET r == run(t.self, Drop(d, T), Drop(x, T))
             IN  [r EXCEPT !.deltas = t.deltas \o r.deltas]

(***************************************************************************)
(* The GNGD filter as a state machine: the constructor, then any calls.    *)
(***************************************************************************)
\* Input rows of width 2 and of width 1, and targets.
WideRows == {<<1, 0>>, <<0, 1>>}
NarrowRows == {<<1>>}
Rows == WideRows \cup NarrowRows
DVals == {1, 2}
\* Target lists of length N: all twos, and 1, 2, ..., N.
DLists(N) == {Tuple([i \in 1..N |-> 2]), Tuple([i \in 1..N |-> i])}
\* Batches <<d, x>> of N samples: N targets and N rows of width 2.
Batches(N) == {<<d, x>> : d \in DLists(N), x \in [1..N -> WideRows]}
\* Other batches: empty, of narrow rows, with more targets than rows, with
\* rows of differing widths.
OddBatches ==
    {<< <<>>, <<>> >>, << <<1>>, << <<1>> >> >>,
     << <<1>>, <<>> >>, << <<1, 1>>, << <<1, 0>> >> >>,
     << <<1, 1>>, << <<1, 0>>, <<1>> >> >>,
     << <<1, 1>>, << <<1>>, <<1, 0>> >> >>}
\* Batches for pretrained_run, and its training ratios and epoch counts.
PretrainBatches(N) ==
    {<<Tuple([i \in 1..N |-> 1]),
       Tuple([i \in 1..N |-> IF i % 2 = 1 THEN <<1, 0>> ELSE <<0, 1>>])>>}
NTrains == {Zero, <<1, 2>>, One}
EpochsArgs == {0, 1, 2}

NoObject == [w |-> <<>>]
NoRes == Raised("", NoObject, <<>>)
NoCall == [op |-> "", d |-> <<>>, x |-> <<>>, ntrain |-> Zero, epochs |-> 0,
           pre |-> NoObject, res |-> NoRes]
NoCtor == [n |-> PyInt(0), mu |-> PyInt(0), eps |-> Zero, ro |-> Zero,
           w |-> WStr(""), order |-> 0, err |-> "", w0 |-> <<>>]
NoChain == [calls |-> 0, base |-> NoObject, d |-> <<>>, x |-> <<>>,
            y |-> <<>>, e |-> <<>>, hist |-> <<>>]

Init ==
    /\ pc = "new"
    /\ ctor = NoCtor
    /\ self = NoObject
    /\ call = NoCall
    /\ chain = NoChain
    /\ fed = <<>>
    /\ steps = 0

\* FilterGNGD(n, mu, eps, ro, w=...)
Construct ==
    /\ pc = "new"
    /\ \E a \in CtorArgs :
         \E r \in FilterGNGD_init(a[1], a[2], a[3], a[4], a[5]) :
            /\ pc' = IF r.ok THEN "ready" ELSE "failed"
            /\ ctor' = [n |-> a[1], mu |-> a[2], eps |-> a[3], ro |-> a[4],
                        w |-> a[5], order |-> 0, err |-> r.err,
                        w0 |-> r.self.w]
            /\ self' = IF r.ok THEN r.self ELSE NoObject
    /\ UNCHANGED <<call, chain, fed, steps>>

\* The series of consecutive successful run calls, after run(d, x) returned r.
Chained(r, d, x) ==
    IF r.outcome # "ok" THEN NoChain
    ELSE IF chain.calls = 0
    THEN [calls |-> 1, base |-> self, d |-> d, x |-> x,
          y |-> r.y, e |-> r.e, hist |-> r.hist]
    ELSE [calls |-> chain.calls + 1, base |-> chain.base,
          d |-> chain.d \o d, x |-> chain.x \o x,
          y |-> chain.y \o r.y, e |-> chain.e \o r.e,
          hist |-> chain.hist \o r.hist]

\* filter.predict(x)
Predict ==
    /\ pc = "ready"
    /\ \E x \in Rows :
         \E p \in {predict(self, NpVector(x))} :
         call' = [op |-> "predict", d |-> <<>>, x |-> <<x>>, ntrain |-> Zero,
                  epochs |-> 0, pre |-> self,
                  res |-> Res(IF p.ok THEN "ok" ELSE "ShapeError", self,
                              p.val, <<>>, <<>>, <<>>, <<>>)]
    /\ chain' = NoChain
    /\ UNCHANGED <<pc, ctor, self, fed, steps>>

\* filter.adapt(d, x)
Adapt ==
    /\ pc = "ready"
    /\ steps < MaxSteps
    /\ \E d \in DVals, x \in Rows :
         \E r \in {adapt(self, R(d), NpVector(x))} :
           /\ call' = [op |-> "adapt", d |-> <<d>>, x |-> <<x>>, ntrain |-> Zero,
                       epochs |-> 0, pre |-> self, res |-> r]
           /\ self' = r.self
           /\ steps' = steps + Len(r.deltas)
    /\ chain' = NoChain
    /\ UNCHANGED <<pc, ctor, fed>>

\* filter.run(d, x)
Run ==
    /\ pc = "ready"
    /\ \E b \in UNION {Batches(N) : N \in 1..(MaxSteps - steps)} \cup OddBatches :
         \E r \in {run(self, b[1], b[2])} :
             /\ call' = [op |-> "run", d |-> b[1], x |-> b[2], ntrain |-> Zero,
                         epochs |-> 0, pre |-> self, res |-> r]
             /\ self' = r.self
             /\ steps' = steps + Len(r.deltas)
             /\ chain' = Chained(r, b[1], b[2])
    /\ UNCHANGED <<pc, ctor, fed>>

\* filter.pretrained_run(d, x, ntrain, epochs)
PretrainedRun ==
    /\ pc = "ready"
    /\ \E N \in 0..MaxSteps, ntrain \in NTrains, epochs \in EpochsArgs :
         \E b \in PretrainBatches(N) :
              LET d == b[1]
                  x == b[2]
                  T == Ntrain(d, ntrain)
              IN  /\ steps + epochs * T + (N - T) <= MaxSteps
                  /\ \E r \in {pretrained_run(self, d, x, ntrain, epochs)} :
                       /\ call' = [op |-> "pretrained_run", d |-> d, x |-> x,
                                   ntrain |-> ntrain, epochs |-> epochs,
                                   pre |-> self, res |-> r]
                       /\ self' = r.self
                       /\ steps' = steps + Len(r.deltas)
    /\ chain' = NoChain
    /\ UNCHANGED <<pc, ctor, fed>>

Next == Construct \/ Predict \/ Adapt \/ Run \/ PretrainedRun

Spec == Init /\ [][Next]_vars

\* The filter driven by its constructor and run alone.
NextRun == Construct \/ Run
SpecRun == Init /\ [][NextRun]_vars

----------------------------------------------------------------------------
(***************************************************************************)
(* Matrices: a matrix is the sequence of its rows                          *)
(***************************************************************************)
Col(M, j) == Tuple([i \in 1..Len(M) |-> M[i][j]])
\* M.T, for a matrix of at least one row
Transpose(M) == Tuple([j \in 1..Len(M[1]) |-> Col(M, j)])
\* np.dot(M, v) and np.dot(A, B)
MatVec(M, v) == Tuple([i \in 1..Len(M) |-> Dot(M[i], v)])
MatMul(A, B) ==
    Tuple([i \in 1..Len(A) |->
              Tuple([j \in 1..Len(B[1]) |-> Dot(A[i], Col(B, j))])])
MatAdd(A, B) == Tuple([i \in 1..Len(A) |-> VAdd(A[i], B[i])])
\* np.identity(k), c * M, np.zeros((r, c))
Identity(k) ==
    Tuple([i \in 1..k |-> Tuple([j \in 1..k |-> IF i = j THEN One ELSE Zero])])
MatScale(c, M) == Tuple([i \in 1..Len(M) |-> VScale(c, M[i])])
ZeroMatrix(r, c) == Tuple([i \in 1..r |-> Zeros(c)])

\* A without row i and column j
Minor(A, i, j) ==
    LET k == Len(A)
        Skip(a, b) == IF a < b THEN a ELSE a + 1
    IN  Tuple([p \in 1..(k - 1) |->
                  Tuple([q \in 1..(k - 1) |-> A[Skip(p, i)][Skip(q, j)]])])

RECURSIVE Det(_)
RECURSIVE DetRow(_, _)
\* The determinant, by expansion along the first row
DetRow(A, j) ==
    IF j > Len(A) THEN Zero
    ELSE RAdd(RMul(RMul(IF j % 2 = 1 THEN One ELSE R(-1), A[1][j]),
                   Det(Minor(A, 1, j))),
              DetRow(A, j + 1))
Det(A) == IF Len(A) = 0 THEN One ELSE DetRow(A, 1)

\* np.linalg.solve(A, B) for a square A: the X with A X = B, or a
\* LinAlgError when A is singular.
Solvable(A) == Det(A) # Zero
Solve(A, B) ==
    LET k == Len(A)
        det == Det(A)
        inv == Tuple([i \in 1..k |-> Tuple([j \in 1..k |->
                   RDiv(RMul(IF (i + j) % 2 = 0 THEN One ELSE R(-1),
                             Det(Minor(A, j, i))), det)])])
    IN  MatMul(inv, B)

(***************************************************************************)
(* AdaptiveFilterAP                                                        *)
(***************************************************************************)
\* AdaptiveFilterAP.__init__(*args, order, eps, **kwargs), the positional
\* arguments mu, n, w going to AdaptiveFilter.__init__ as they come. The
\* memories y_mem and e_mem start as False, written <<>>; ide and ide_eps
\* are never assigned again and are the operators below.
AdaptiveFilterAP_init(mu, n, w, order, eps) ==
    {[ok |-> b.ok, err |-> b.err,
      self |-> [w |-> b.w, n |-> b.n, mu |-> b.mu, w_history |-> <<>>,
                order |-> order, eps |-> eps,
                x_mem |-> IF b.ok THEN ZeroMatrix(n.val[1], order) ELSE <<>>,
                d_mem |-> Zeros(order), y_mem |-> <<>>, e_mem |-> <<>>]] :
        b \in AdaptiveFilter_init(mu, n, w)}

ide(s) == Identity(s.order)
ide_eps(s) == MatScale(s.eps, Identity(s.order))

\* A slip in the shift: the entries move the other way.
shift_back(v) == Tuple([j \in 1..Len(v) |-> IF j = Len(v) THEN v[j] ELSE v[j + 1]])

\* x_mem[:, 1:] = x_mem[:, :-1] and d_mem[1:] = d_mem[:-1]: every entry but
\* the first moves one place on (numpy copies where the two slices overlap).
shift(v) == Tuple([j \in 1..Len(v) |-> IF j = 1 THEN v[1] ELSE v[j - 1]])
shift_columns(M) == Tuple([i \in 1..Len(M) |-> shift(M[i])])

\* x_mem[:, 0] = x : x as long as the column, or a single value, which numpy
\* broadcasts; any other length raises.
FitsColumn(M, x) == Len(x) = Len(M) \/ Len(x) = 1
set_column_0(M, x) ==
    Tuple([i \in 1..Len(M) |->
              [M[i] EXCEPT ![1] = IF Len(x) = Len(M) THEN x[i] ELSE x[1]]])

\* adapt, 233-239: the sample goes into the memories, then the outputs and
\* errors of the window are estimated. FitsColumn(s.x_mem, x) is the
\* caller's to check.
adapt_remember(s, d, x) ==
    LET xm == set_column_0(shift_columns(s.x_mem), x)
        dm == [shift(s.d_mem) EXCEPT ![1] = d]
        ym == MatVec(Transpose(xm), s.w)
    IN  [s EXCEPT !.x_mem = xm, !.d_mem = dm, !.y_mem = ym,
                  !.e_mem = VSub(dm, ym)]

\* The same statements as the loop of run has them, 288-294.
run_remember(s, dk, xk) ==
    LET xm == set_column_0(shift_columns(s.x_mem), xk)
        dm == [shift(s.d_mem) EXCEPT ![1] = dk]
        ym == MatVec(Transpose(xm), s.w)
    IN  [s EXCEPT !.x_mem = xm, !.d_mem = dm, !.y_mem = ym,
                  !.e_mem = VSub(dm, ym)]

\* A slip in the update: the regularisation eps I left out of the system.
adapt_dw_unregularised(s) ==
    LET dw_part1 == MatMul(Transpose(s.x_mem), s.x_mem)
        dw_part2 == Solve(dw_part1, ide(s))
    IN  MatVec(s.x_mem, MatVec(dw_part2, s.e_mem))

\* adapt's update direction (241-243):
\* dw = x_mem (x_mem.T x_mem + eps I)^-1 e_mem
adapt_dw(s) ==
    LET dw_part1 == MatAdd(MatMul(Transpose(s.x_mem), s.x_mem), ide_eps(s))
        dw_part2 == Solve(dw_part1, ide(s))
    IN  MatVec(s.x_mem, MatVec(dw_part2, s.e_mem))
adapt_solvable(s) ==
    Solvable(MatAdd(MatMul(Transpose(s.x_mem), s.x_mem), ide_eps(s)))

\* AdaptiveFilterAP.adapt(d, x)
ap_adapt(s, d, x) ==
    IF ~FitsColumn(s.x_mem, x)
    THEN Raised("ShapeError", [s EXCEPT !.x_mem = shift_columns(@)], <<>>)
    ELSE LET s1 == adapt_remember(s, d, x) IN
         IF ~adapt_solvable(s1) THEN Raised("LinAlgError", s1, <<>>)
         ELSE LET delta == VScale(s1.mu, adapt_dw(s1))
              IN  Res("ok", [s1 EXCEPT !.w = apply_delta(@, delta)],
                      Zero, <<>>, <<>>, <<>>, <<delta>>)

\* The learning rule run calls, self.learning_rule(e_mem, x_mem). The class
\* in base_filter.py leaves it to the concrete filter; it is the rule the
\* design states for it: the delta mu x_mem (x_mem.T x_mem + eps I)^-1 e_mem.
ap_learning_rule(s, e_mem, x_mem) ==
    LET a == MatAdd(MatMul(Transpose(x_mem), x_mem), ide_eps(s))
    IN  IF ~Solvable(a) THEN [ok |-> FALSE, delta |-> <<>>]
        ELSE [ok |-> TRUE,
              delta |-> VScale(s.mu, MatVec(x_mem,
                                   MatVec(Solve(a, ide(s)), e_mem)))]

\* The adaptation loop of AdaptiveFilterAP.run, from sample k on (285-299).
RECURSIVE ap_run_loop(_, _, _, _, _, _, _)
ap_run_loop(s, d, x, k, y, e, deltas) ==
    IF k > Len(x) THEN Res("ok", s, Zero, y, e, s.w_history, deltas)
    ELSE LET m == Len(x[k]) IN
         IF Len(s.w) # m /\ Len(s.w) # 1 THEN Raised("ShapeError", s, deltas)
         ELSE LET s1 == [s EXCEPT !.w_history[k] = HistoryRow(s.w, m)] IN
              IF ~FitsColumn(s1.x_mem, x[k])
              THEN Raised("ShapeError",
                          [s1 EXCEPT !.x_mem = shift_columns(@)], deltas)
              ELSE LET s2 == run_remember(s1, d[k], x[k])
                       lr == ap_learning_rule(s2, s2.e_mem, s2.x_mem)
                   IN  IF ~lr.ok THEN Raised("LinAlgError", s2, deltas)
                       ELSE ap_run_loop(
                                [s2 EXCEPT !.w = apply_delta(@, lr.delta)],
                                d, x, k + 1,
                                [y EXCEPT ![k] = s2.y_mem[1]],
                                [e EXCEPT ![k] = s2.e_mem[1]],
                                Append(deltas, lr.delta))

\* AdaptiveFilterAP.run(d, x)
ap_run(s, d, x) ==
    LET N == Len(x) IN
    IF Len(d) # N THEN Raised("DimensionMismatch", s, <<>>)
    ELSE IF N = 0 THEN Raised("IndexError", s, <<>>)
    ELSE LET s1 == [s EXCEPT !.n = R(Len(x[1]))] IN
         IF Ragged(x) THEN Raised("ConversionError", s1, <<>>)
         ELSE ap_run_loop(new_history(s1, N), NpVector(d), NpMatrix(x), 1,
                          Zeros(N), Zeros(N), <<>>)

(***************************************************************************)
(* The affine-projection filter as a state machine                         *)
(***************************************************************************)
\* Most samples an affine-projection filter is given in its life.
MaxSamples == 2

\* Constructor calls <<mu, n, w, order, eps>>.
APCtorArgs ==
    {PyFloat(<<1, 2>>)} \X {PyInt(2)}
        \X {WStr("zeros"), WStr("ones"), WArr(<<1, 0>>)} \X {1, 2} \X {One}
\* Rows handed to adapt: of width 2, 1 and 3.
APRows == Rows \cup {<<1, 1, 1>>}
\* Batches <<d, x>> of N samples for run: targets 1..N, rows of width 2.
APBatches(N) == {<<Tuple([i \in 1..N |-> i]), x>> : x \in [1..N -> WideRows]}

NoFed == [clean |-> TRUE, adapts |-> TRUE, d |-> <<>>, x |-> <<>>]

\* The record of the samples that went into the window, most recent first,
\* after a call that returned r on the samples d, x. clean: every sample so
\* far was as wide as the window is high and no call raised in the middle
\* of a step; adapts: every sample so far came by adapt.
Fed(r, d, x, byAdapt) ==
    IF r.outcome = "ok"
    THEN [clean |-> fed.clean /\ \A k \in 1..Len(x) : Len(x[k]) = Len(self.x_mem),
          adapts |-> fed.adapts /\ byAdapt,
          d |-> [k \in 1..Len(d) |-> d[Len(d) + 1 - k]] \o fed.d,
          x |-> [k \in 1..Len(x) |-> x[Len(x) + 1 - k]] \o fed.x]
    ELSE IF r.outcome = "ShapeError" THEN [fed EXCEPT !.clean = FALSE]
    ELSE fed

\* AdaptiveFilterAP(mu, n, w, order=..., eps=...)
ConstructAP ==
    /\ pc = "new"
    /\ \E a \in APCtorArgs :
         \E r \in AdaptiveFilterAP_init(a[1], a[2], a[3], a[4], a[5]) :
            /\ pc' = IF r.ok THEN "ready" ELSE "failed"
            /\ ctor' = [n |-> a[2], mu |-> a[1], eps |-> a[5], ro |-> Zero,
                        w |-> a[3], order |-> a[4], err |-> r.err,
                        w0 |-> r.self.w]
            /\ self' = IF r.ok THEN r.self ELSE NoObject
    /\ fed' = NoFed
    /\ UNCHANGED <<call, chain, steps>>

\* filter.adapt(d, x)
AdaptAP ==
    /\ pc = "ready"
    /\ steps < MaxSamples
    /\ \E d \in DVals, x \in APRows :
         \E r \in {ap_adapt(self, R(d), NpVector(x))} :
           /\ call' = [op |-> "adapt", d |-> <<d>>, x |-> <<x>>, ntrain |-> Zero,
                       epochs |-> 0, pre |-> self, res |-> r]
           /\ self' = r.self
           /\ steps' = steps + Len(r.deltas)
           /\ fed' = Fed(r, <<d>>, <<x>>, TRUE)
    /\ UNCHANGED <<pc, ctor, chain>>

\* filter.run(d, x)
RunAP ==
    /\ pc = "ready"
    /\ \E b \in UNION {APBatches(N) : N \in 1..(MaxSamples - steps)} \cup OddBatches :
         \E r \in {ap_run(self, b[1], b[2])} :
             /\ call' = [op |-> "run", d |-> b[1], x |-> b[2], ntrain |-> Zero,
                         epochs |-> 0, pre |-> self, res |-> r]
             /\ self' = r.self
             /\ steps' = steps + Len(r.deltas)
             /\ fed' = Fed(r, b[1], b[2], FALSE)
    /\ UNCHANGED <<pc, ctor, chain>>

NextAP == ConstructAP \/ AdaptAP \/ RunAP

SpecAP == Init /\ [][NextAP]_vars

----------------------------------------------------------------------------
(***************************************************************************)
(* Properties of the GNGD filter                                           *)
(***************************************************************************)
\* The last call was run, and it returned.
RanOk == call.op = "run" /\ call.res.outcome = "ok"

\* C1: the documented example. Constructing FilterGNGD(n=2, mu=0.1, eps=1,
\* ro=0.1, w=[0,0]) succeeds, and run(d=[1,2], x=[[1,0],[0,1]]) on the new
\* filter returns y=[0,0], e=[1,2], weight history [[0,0],[0.05,0]] and
\* leaves the weights [0.05,0.1].
C1_Example ==
    (pc # "new" /\ <<ctor.n, ctor.mu, ctor.eps, ctor.ro, ctor.w>> = Example)
    => /\ pc = "ready"
       /\ (/\ call.op = "run"
           /\ call.d = <<1, 2>>
           /\ call.x = << <<1, 0>>, <<0, 1>> >>
           /\ steps = Len(call.res.deltas))
          => /\ call.res.outcome = "ok"
             /\ call.res.y = <<Zero, Zero>>
             /\ call.res.e = <<R(1), R(2)>>
             /\ call.res.hist = << <<Zero, Zero>>, <<<<1, 20>>, Zero>> >>
             /\ self.w = << <<1, 20>>, <<1, 10>> >>

\* C2: after run returned for a batch of N >= 1 samples, row 0 of the weight
\* history is the weights on entry (the constructed weights, when no sample
\* was processed before), each later row is the row before it plus the delta
\* the learning rule returned at that step, and the weights the filter is
\* left with are the last row plus the last delta.
C2_WeightHistory ==
    RanOk =>
       LET N == Len(call.x)
           h == call.res.hist
           dl == call.res.deltas
       IN  /\ N >= 1 /\ Len(h) = N /\ Len(dl) = N
           /\ h[1] = call.pre.w
           /\ (steps = N => h[1] = ctor.w0)
           /\ \A k \in 1..(N - 1) : h[k + 1] = VAdd(h[k], dl[k])
           /\ self.w = VAdd(h[N], dl[N])
           /\ self.w_history = h

\* C2, its case: a run over two or more samples whose first step moved the
\* weights.
C2_Witness ==
    /\ RanOk
    /\ Len(call.x) >= 2
    /\ call.res.hist[2] # call.res.hist[1]
    /\ self.w # call.res.hist[Len(call.x)]

\* C3: adapt(d, x), with x as wide as the weights and the rule's remembered
\* input, completes normally and leaves the weights and the rule state (eps,
\* last_e, last_x) that run leaves on the one-sample batch ([d], [x]).
C3_AdaptIsOneStep ==
    (/\ call.op = "adapt"
     /\ Len(call.x[1]) = Len(call.pre.w)
     /\ Len(call.x[1]) = Len(call.pre.last_x))
    => LET r == run(call.pre, call.d, call.x)
       IN  /\ call.res.outcome = "ok"
           /\ self.w = r.self.w
           /\ self.eps = r.self.eps
           /\ self.last_e = r.self.last_e
           /\ self.last_x = r.self.last_x

\* C4: when run rejects its arguments, with DimensionMismatch or with
\* ConversionError, the object is as it was before the call: weights, n,
\* stored history and rule state.
C4_RejectionLeavesObject ==
    (call.op = "run"
        /\ call.res.outcome \in {"DimensionMismatch", "ConversionError"})
    => self = call.pre

\* C5: the weight vector is always as long as the filter's n.
C5_LengthIsN == pc = "ready" => R(Len(self.w)) = self.n

\* C6: right after construction with n >= 1: "zeros" gave n zeros; an
\* explicit sequence of length n gave those values; another string than
\* "random" and "zeros", and a sequence of another length, failed with
\* InvalidWeightSpec; and on success the filter's n and mu are the caller's.
C6_Construction ==
    (pc # "new" /\ call = NoCall) =>
       LET n == ctor.n.val[1] IN
       /\ ctor.w = WStr("zeros") => (pc = "ready" /\ self.w = Zeros(n))
       /\ (ctor.w.kind = "arr" /\ Len(ctor.w.arr) = n)
            => (pc = "ready" /\ self.w = NpVector(ctor.w.arr))
       /\ (ctor.w.kind = "str" /\ ctor.w.str \notin {"random", "zeros"})
            => (pc = "failed" /\ ctor.err = "InvalidWeightSpec")
       /\ (ctor.w.kind = "arr" /\ Len(ctor.w.arr) # n)
            => (pc = "failed" /\ ctor.err = "InvalidWeightSpec")
       /\ pc = "ready" => (self.n = ctor.n.val /\ self.mu = ctor.mu.val)

\* C9: pretrained_run(d, x, ntrain, epochs) on N samples the filter can
\* take, for any ntrain in [0, 1] and epochs >= 0: with T = floor(N * ntrain)
\* it completes, returns y and e of length N - T, its returned history
\* starts with the weights the training left, and the filter is left as by
\* epochs runs on samples 0..T-1 followed by one run on samples T..N-1.
C9_PretrainedRun ==
    (/\ call.op = "pretrained_run"
     /\ Len(call.pre.w) = 2
     /\ Len(call.pre.last_x) = 2)
    => LET N == Len(call.d)
           T == (N * call.ntrain[1]) \div call.ntrain[2]
           t == train(call.pre, Take(call.d, T), Take(call.x, T),
                      call.epochs, <<>>)
       IN  /\ call.res.outcome = "ok"
           /\ Len(call.res.y) = N - T
           /\ Len(call.res.e) = N - T
           /\ Len(call.res.hist) = N - T
           /\ N - T >= 1 => call.res.hist[1] = t.self.w
           /\ Len(call.res.deltas) = call.epochs * T + (N - T)
           /\ self.w = run(t.self, Drop(call.d, T), Drop(call.x, T)).self.w

\* C10: when run returned for a batch and then again for a second one, the
\* second call started from the last error and input of the first, and the
\* two calls' y, e and history rows, put end to end, with the weights and
\* eps the filter is left with, are what one run over both batches returns
\* and leaves from the state before the first call. A second call of one
\* sample left the eps the rule computes from the first call's last error
\* and input.
C10_ContinuedAdaptation ==
    chain.calls >= 2 =>
       LET whole == run(chain.base, chain.d, chain.x)
           k == Len(chain.d) - Len(call.d)
           xk == NpVector(chain.x[k])
           x1 == NpVector(call.x[1])
           p == call.pre
       IN  /\ whole.outcome = "ok"
           /\ whole.y = chain.y
           /\ whole.e = chain.e
           /\ whole.hist = chain.hist
           /\ whole.self.w = self.w
           /\ whole.self.eps = self.eps
           /\ p.last_e = chain.e[k]
           /\ p.last_x = xk
           /\ Len(call.d) = 1 =>
                self.eps =
                    RSub(p.eps,
                         RDiv(RMul(RMul(RMul(RMul(p.ro, p.mu), call.res.e[1]),
                                        chain.e[k]), Dot(x1, xk)),
                              RSq(RAdd(Dot(xk, xk), p.eps))))

\* C10, its case: a second run of one sample that changed eps.
C10_Witness ==
    /\ chain.calls = 2
    /\ Len(call.d) = 1
    /\ self.eps # call.pre.eps

----------------------------------------------------------------------------
(***************************************************************************)
(* Properties of the affine-projection filter                              *)
(***************************************************************************)
\* C7: the sliding window. After m calls to adapt, each with an input as
\* long as the window is high, on a filter of window depth order: for
\* j < min(m, order) column j of x_mem is the input given j calls ago and
\* d_mem[j] the target given j calls ago; every column j >= m still holds
\* its zeros; and the window keeps order columns and no more, so the sample
\* given order calls ago is gone.
C7_SlidingWindow ==
    (pc = "ready" /\ fed.adapts /\ fed.clean) =>
       LET m == Len(fed.x) IN
       /\ Len(self.d_mem) = self.order
       /\ \A i \in 1..Len(self.x_mem) : Len(self.x_mem[i]) = self.order
       /\ \A j \in 1..self.order :
             IF j <= m
             THEN /\ Col(self.x_mem, j) = NpVector(fed.x[j])
                  /\ self.d_mem[j] = R(fed.d[j])
             ELSE /\ Col(self.x_mem, j) = Zeros(Len(self.x_mem))
                  /\ self.d_mem[j] = Zero

\* C7, its case: more calls to adapt than the window is deep, the last two
\* with different inputs and targets.
C7_Witness ==
    /\ pc = "ready" /\ fed.adapts /\ fed.clean
    /\ call.op = "adapt"
    /\ Len(fed.x) > self.order
    /\ fed.x[1] # fed.x[2]
    /\ fed.d[1] # fed.d[2]

\* adapt(d[k], x[k]) called for k, k+1, ... in order: the filter it leaves,
\* with y_mem[0], e_mem[0] and the weight change of every step.
RECURSIVE adapt_each(_, _, _, _, _)
adapt_each(s, d, x, k, acc) ==
    IF k > Len(x) THEN [acc EXCEPT !.self = s]
    ELSE LET r == ap_adapt(s, R(d[k]), NpVector(x[k])) IN
         IF r.outcome # "ok" THEN [acc EXCEPT !.self = r.self, !.ok = FALSE]
         ELSE adapt_each(r.self, d, x, k + 1,
                         [acc EXCEPT !.y = Append(@, r.self.y_mem[1]),
                                     !.e = Append(@, r.self.e_mem[1]),
                                     !.w = Append(@, s.w),
                                     !.deltas = @ \o r.deltas])

============================================================================
